---------------------------- MODULE Spec2Model ----------------------------
(***************************************************************************)
(* Constant-product AMM swap simulator (main.cpp): getAmountOut and       *)
(* simulateSwap, with the `double` arithmetic they are written in.         *)
(*                                                                         *)
(* A `double` is modelled as a value of a binary floating-point format    *)
(* with the IEEE-754 structure (round to nearest, ties to even, gradual    *)
(* underflow, overflow to infinity, NaN) and Prec significand bits in     *)
(* place of 53.  A finite value is an integer count v of the least        *)
(* subnormal, so 1.0 is One = 2^Prec and the finite values are the        *)
(* v = m * 2^k with |m| < 2^Prec, 0 <= k <= EMax.  The sign of zero is    *)
(* not kept: no comparison of the program observes it.                     *)
(***************************************************************************)
EXTENDS Integers, Sequences, FiniteSets, TLC

\* Significand bits of the format (53 in a double).
Prec == 3
\* Largest exponent shift of the format: MaxFinite = (2^Prec - 1) * 2^EMax.
EMax == 7
\* Inputs of the calls are the m * 2^k with m <= InMant and k <= InExp.
InMant == 3
InExp == 7

One == 2^Prec
MaxFinite == (2^Prec - 1) * 2^EMax

---------------------------------------------------------------------------
(* double: values *)

Fin(n) == [c |-> "fin", v |-> n]
PInf == [c |-> "inf", v |-> 1]
NInf == [c |-> "inf", v |-> -1]
NaN == [c |-> "nan", v |-> 0]

IsNaN(x) == x.c = "nan"
IsInf(x) == x.c = "inf"
IsFin(x) == x.c = "fin"

Abs(n) == IF n < 0 THEN -n ELSE n
Sgn(n) == IF n < 0 THEN -1 ELSE 1
\* Sign of a non-NaN value (zero counts as positive).
SignOf(x) == Sgn(x.v)
IsZero(x) == IsFin(x) /\ x.v = 0

\* Position of a non-NaN value on the extended line, for comparisons.
Ord(x) == IF IsInf(x) THEN x.v * (MaxFinite + 1) ELSE x.v

\* The comparisons of double: each is false when an operand is NaN.
Lt(x, y) == ~IsNaN(x) /\ ~IsNaN(y) /\ Ord(x) < Ord(y)
Gt(x, y) == Lt(y, x)
Le(x, y) == ~IsNaN(x) /\ ~IsNaN(y) /\ Ord(x) <= Ord(y)
Ge(x, y) == Le(y, x)

---------------------------------------------------------------------------
(* double: rounding and arithmetic *)

\* num/den rounded to the nearest integer, ties to the even one.
RoundNE(num, den) ==
    LET q == num \div den
        r == num % den
    IN  IF 2 * r < den THEN q
        ELSE IF 2 * r > den THEN q + 1
        ELSE IF q % 2 = 0 THEN q ELSE q + 1

\* The least k >= from with num/den < 2^(Prec + k): the exponent shift of num/den.
RECURSIVE ShiftOf(_, _, _)
ShiftOf(num, den, from) ==
    IF num < den * 2^(Prec + from) THEN from ELSE ShiftOf(num, den, from + 1)

\* The double nearest to sign * num/den (num >= 0, den > 0).
Round(sign, num, den) ==
    LET k == ShiftOf(num, den, 0)
        n == RoundNE(num, den * 2^k) * 2^k
    IN  IF n > MaxFinite THEN (IF sign < 0 THEN NInf ELSE PInf)
        ELSE Fin(sign * n)

Neg(x) == IF IsNaN(x) THEN NaN ELSE [c |-> x.c, v |-> -x.v]

FAdd(x, y) ==
    IF IsNaN(x) \/ IsNaN(y) THEN NaN
    ELSE IF IsInf(x) /\ IsInf(y) THEN (IF x.v = y.v THEN x ELSE NaN)
    ELSE IF IsInf(x) THEN x
    ELSE IF IsInf(y) THEN y
    ELSE Round(Sgn(x.v + y.v), Abs(x.v + y.v), 1)

FSub(x, y) == FAdd(x, Neg(y))

FMul(x, y) ==
    IF IsNaN(x) \/ IsNaN(y) THEN NaN
    ELSE IF IsInf(x) \/ IsInf(y)
         THEN (IF IsZero(x) \/ IsZero(y) THEN NaN
               ELSE IF SignOf(x) * SignOf(y) < 0 THEN NInf ELSE PInf)
    ELSE Round(Sgn(x.v) * Sgn(y.v), Abs(x.v) * Abs(y.v), One)

FDiv(x, y) ==
    IF IsNaN(x) \/ IsNaN(y) THEN NaN
    ELSE IF IsInf(x)
         THEN (IF IsInf(y) THEN NaN
               ELSE IF SignOf(x) * SignOf(y) < 0 THEN NInf ELSE PInf)
    ELSE IF IsInf(y) THEN Fin(0)
    ELSE IF y.v = 0
         THEN (IF x.v = 0 THEN NaN ELSE IF x.v < 0 THEN NInf ELSE PInf)
    ELSE Round(Sgn(x.v) * Sgn(y.v), Abs(x.v) * One, Abs(y.v))

\* The literals 0.0, 1.0 and 100.0 as the format holds them.
Zero == Fin(0)
OneF == Fin(One)
Hundred == Round(1, 100 * One, 1)

---------------------------------------------------------------------------
(* std::string: a sequence of characters; std::toupper on the C locale *)

Lower == <<"a", "b", "x", "y", "z">>
Upper == <<"A", "B", "X", "Y", "Z">>

toupper(ch) ==
    IF \E i \in 1..Len(Lower) : Lower[i] = ch
    THEN Upper[CHOOSE i \in 1..Len(Lower) : Lower[i] = ch]
    ELSE ch

\* Faulty variant: only the first character is raised.
Normalize_FirstOnly(directionRaw) ==
    [i \in 1..Len(directionRaw) |->
        IF i = 1 THEN toupper(directionRaw[i]) ELSE directionRaw[i]]

\* for (auto& c : direction) c = (char)std::toupper((unsigned char)c);
Normalize(directionRaw) == [i \in 1..Len(directionRaw) |-> toupper(directionRaw[i])]

A2B == <<"A", "2", "B">>
B2A == <<"B", "2", "A">>

---------------------------------------------------------------------------
(* what() of the std::runtime_error each require throws, word by word *)

MsgAmountIn == <<"amountIn", "must", "be", ">", "0">>
MsgReserves == <<"reserves", "must", "be", ">", "0">>
MsgFee == <<"fee", "must", "be", "in", "[0,", "1)">>
MsgReserveAB == <<"reserveA", "and", "reserveB", "must", "be", ">", "0">>
MsgDirection == <<"direction", "must", "be", "A2B", "or", "B2A">>
MsgDrain == <<"amountOut", "would", "drain", "the", "pool", "(invalid", "trade)">>

Throw(msg) == [status |-> "throw", what |-> msg]
Return(val) == [status |-> "ok", val |-> val]

---------------------------------------------------------------------------
(* getAmountOut *)

\* amountInWithFee = amountIn * (1.0 - fee)
AmountInWithFee(amountIn, fee) == FMul(amountIn, FSub(OneF, fee))

\* Faulty variant: the denominator takes amountIn before the fee.
QuoteFormula_FullAmountBelow(amountIn, reserveIn, reserveOut, fee) ==
    LET amountInWithFee == AmountInWithFee(amountIn, fee)
    IN  FDiv(FMul(amountInWithFee, reserveOut), FAdd(reserveIn, amountIn))

\* (amountInWithFee * reserveOut) / (reserveIn + amountInWithFee)
QuoteFormula(amountIn, reserveIn, reserveOut, fee) ==
    LET amountInWithFee == AmountInWithFee(amountIn, fee)
    IN  FDiv(FMul(amountInWithFee, reserveOut), FAdd(reserveIn, amountInWithFee))

getAmountOut(amountIn, reserveIn, reserveOut, fee) ==
    IF ~Gt(amountIn, Zero) THEN Throw(MsgAmountIn)
    ELSE IF ~(Gt(reserveIn, Zero) /\ Gt(reserveOut, Zero)) THEN Throw(MsgReserves)
    ELSE IF ~(Ge(fee, Zero) /\ Lt(fee, OneF)) THEN Throw(MsgFee)
    ELSE Return(QuoteFormula(amountIn, reserveIn, reserveOut, fee))

---------------------------------------------------------------------------
(* simulateSwap *)

SwapResult(out, newA, newB, eff, slip) ==
    [amountOut |-> out, newReserveA |-> newA, newReserveB |-> newB,
     effectivePrice |-> eff, slippagePercent |-> slip]

\* slippage% = (P0 - Peff) / P0 * 100
Slippage(P0, effectivePrice) == FMul(FDiv(FSub(P0, effectivePrice), P0), Hundred)

\* Faulty variant of the A2B branch: the guard lets out = reserveB through.
SwapA2B_DrainLe(reserveA, reserveB, fee, amountIn) ==
    LET P0 == FDiv(reserveB, reserveA)
        q == getAmountOut(amountIn, reserveA, reserveB, fee)
    IN  IF q.status = "throw" THEN q
        ELSE IF ~Le(q.val, reserveB) THEN Throw(MsgDrain)
        ELSE LET out == q.val
                 eff == FDiv(out, amountIn)
             IN  Return(SwapResult(out, FAdd(reserveA, amountIn), FSub(reserveB, out),
                                   eff, Slippage(P0, eff)))

\* The A2B branch.
SwapA2B(reserveA, reserveB, fee, amountIn) ==
    LET P0 == FDiv(reserveB, reserveA)
        q == getAmountOut(amountIn, reserveA, reserveB, fee)
    IN  IF q.status = "throw" THEN q
        ELSE IF ~Lt(q.val, reserveB) THEN Throw(MsgDrain)
        ELSE LET out == q.val
                 eff == FDiv(out, amountIn)
             IN  Return(SwapResult(out, FAdd(reserveA, amountIn), FSub(reserveB, out),
                                   eff, Slippage(P0, eff)))

\* Faulty variant of the B2A branch: the fee is taken off the amount added.
SwapB2A_FeeDeducted(reserveA, reserveB, fee, amountIn) ==
    LET P0 == FDiv(reserveA, reserveB)
        q == getAmountOut(amountIn, reserveB, reserveA, fee)
    IN  IF q.status = "throw" THEN q
        ELSE IF ~Lt(q.val, reserveA) THEN Throw(MsgDrain)
        ELSE LET out == q.val
                 eff == FDiv(out, amountIn)
             IN  Return(SwapResult(out, FSub(reserveA, out),
                                   FAdd(reserveB, AmountInWithFee(amountIn, fee)),
                                   eff, Slippage(P0, eff)))

\* Faulty variant of the B2A branch: the spot price of the A2B branch.
SwapB2A_SpotOfA2B(reserveA, reserveB, fee, amountIn) ==
    LET P0 == FDiv(reserveB, reserveA)
        q == getAmountOut(amountIn, reserveB, reserveA, fee)
    IN  IF q.status = "throw" THEN q
        ELSE IF ~Lt(q.val, reserveA) THEN Throw(MsgDrain)
        ELSE LET out == q.val
                 eff == FDiv(out, amountIn)
             IN  Return(SwapResult(out, FSub(reserveA, out), FAdd(reserveB, amountIn),
                                   eff, Slippage(P0, eff)))

\* The B2A branch.
SwapB2A(reserveA, reserveB, fee, amountIn) ==
    LET P0 == FDiv(reserveA, reserveB)
        q == getAmountOut(amountIn, reserveB, reserveA, fee)
    IN  IF q.status = "throw" THEN q
        ELSE IF ~Lt(q.val, reserveA) THEN Throw(MsgDrain)
        ELSE LET out == q.val
                 eff == FDiv(out, amountIn)
             IN  Return(SwapResult(out, FSub(reserveA, out), FAdd(reserveB, amountIn),
                                   eff, Slippage(P0, eff)))

\* Faulty variant: the direction is checked before the reserves.
simulateSwap_DirectionFirst(reserveA, reserveB, fee, directionRaw, amountIn) ==
    LET direction == Normalize(directionRaw)
    IN  IF ~(direction = A2B \/ direction = B2A) THEN Throw(MsgDirection)
        ELSE IF ~(Gt(reserveA, Zero) /\ Gt(reserveB, Zero)) THEN Throw(MsgReserveAB)
        ELSE IF direction = A2B THEN SwapA2B(reserveA, reserveB, fee, amountIn)
        ELSE SwapB2A(reserveA, reserveB, fee, amountIn)

simulateSwap(reserveA, reserveB, fee, directionRaw, amountIn) ==
    IF ~(Gt(reserveA, Zero) /\ Gt(reserveB, Zero)) THEN Throw(MsgReserveAB)
    ELSE LET direction == Normalize(directionRaw)
         IN  IF ~(direction = A2B \/ direction = B2A) THEN Throw(MsgDirection)
             ELSE IF direction = A2B THEN SwapA2B(reserveA, reserveB, fee, amountIn)
             ELSE SwapB2A(reserveA, reserveB, fee, amountIn)

---------------------------------------------------------------------------
(* The calls a caller makes: inputs, and the state machine *)

\* The positive finite doubles m * 2^k, m <= InMant, k <= InExp.
PosInputs == {Fin(m * 2^k) : m \in 1..InMant, k \in 0..InExp} \cap
             {Fin(n) : n \in 1..MaxFinite}

\* What std::stod can hand over for a reserve or an amount.
AmountInputs == PosInputs \cup {Zero, Fin(-One), PInf, NaN}

\* Fees: the least negative one, 0.0, the least positive one, 0.5, the largest
\* one below 1.0, 1.0 itself, and NaN.
FeeInputs == {Fin(-1), Zero, Fin(1), Fin(One \div 2), Fin(One - 1), OneF, NaN}

\* Spellings of the direction, and the numbers they are tried with.
DirInputs == {A2B, B2A, <<"a", "2", "b">>, <<"b", "2", "A">>, <<"A", "2", "b">>,
              <<"X", "Y", "Z">>, <<"A", "2", "B", "A">>, <<"A", "2">>, <<>>}
ProbeAmounts == {Zero, NaN, Fin(1), OneF, Fin(3 * One), PInf}
ProbeFees == {Zero, Fin(One \div 2), OneF}

VARIABLES pc, call, result

vars == <<pc, call, result>>

NoCall == [op |-> "none"]
NoResult == [status |-> "none"]

Init ==
    /\ pc = "idle"
    /\ call = NoCall
    /\ result = NoResult

\* One call of simulateSwap and what it returns or throws.
SimulateCall(reserveA, reserveB, fee, directionRaw, amountIn) ==
    /\ call' = [op |-> "simulate", reserveA |-> reserveA, reserveB |-> reserveB,
                fee |-> fee, direction |-> directionRaw, amountIn |-> amountIn]
    /\ result' = simulateSwap(reserveA, reserveB, fee, directionRaw, amountIn)

\* A caller runs simulateSwap (main.cpp:186, main.cpp:225): every number with the
\* canonical directions, every spelling with the probe numbers.
Simulate ==
    /\ pc = "idle"
    /\ \/ \E reserveA \in AmountInputs, reserveB \in AmountInputs, fee \in FeeInputs,
             directionRaw \in {A2B, B2A}, amountIn \in AmountInputs :
             SimulateCall(reserveA, reserveB, fee, directionRaw, amountIn)
       \/ \E reserveA \in ProbeAmounts, reserveB \in ProbeAmounts, fee \in ProbeFees,
             directionRaw \in DirInputs, amountIn \in ProbeAmounts :
             SimulateCall(reserveA, reserveB, fee, directionRaw, amountIn)
    /\ pc' = "returned"

\* A caller runs getAmountOut on its own.
Quote ==
    /\ pc = "idle"
    /\ \E amountIn \in AmountInputs, reserveIn \in AmountInputs,
          reserveOut \in AmountInputs, fee \in FeeInputs :
          /\ call' = [op |-> "quote", amountIn |-> amountIn, reserveIn |-> reserveIn,
                       reserveOut |-> reserveOut, fee |-> fee]
          /\ result' = getAmountOut(amountIn, reserveIn, reserveOut, fee)
    /\ pc' = "returned"

\* The result is consumed; nothing is kept between calls.
Done ==
    /\ pc = "returned"
    /\ pc' = "idle"
    /\ call' = NoCall
    /\ result' = NoResult

Next == Simulate \/ Quote \/ Done

Spec == Init /\ [][Next]_vars

---------------------------------------------------------------------------
(* Properties *)

SimReturned == pc = "returned" /\ call.op = "simulate"
QuoteReturned == pc = "returned" /\ call.op = "quote"

\* The validity conditions the specification states for the numbers.
ValidNumbers(amountIn, reserveIn, reserveOut, fee) ==
    /\ Gt(amountIn, Zero) /\ Gt(reserveIn, Zero) /\ Gt(reserveOut, Zero)
    /\ Ge(fee, Zero) /\ Lt(fee, OneF)

\* Two characters that differ at most in case, and two such strings.
SameLetter(a, b) ==
    \/ a = b
    \/ \E i \in 1..Len(Lower) : {a, b} = {Lower[i], Upper[i]}
CaseEq(s, t) == Len(s) = Len(t) /\ \A i \in 1..Len(s) : SameLetter(s[i], t[i])
IsA2B(d) == CaseEq(d, A2B)
IsB2A(d) == CaseEq(d, B2A)

\* The reserve a simulate call sells into and the one it buys from.
InReserve == IF IsA2B(call.direction) THEN call.reserveA ELSE call.reserveB
OutReserve == IF IsA2B(call.direction) THEN call.reserveB ELSE call.reserveA
NewInReserve == IF IsA2B(call.direction) THEN result.val.newReserveA ELSE result.val.newReserveB
NewOutReserve == IF IsA2B(call.direction) THEN result.val.newReserveB ELSE result.val.newReserveA

\* A simulate call whose five inputs pass every validation.
SimValid ==
    /\ SimReturned
    /\ IsA2B(call.direction) \/ IsB2A(call.direction)
    /\ ValidNumbers(call.amountIn, call.reserveA, call.reserveB, call.fee)
QuoteValid ==
    /\ QuoteReturned
    /\ ValidNumbers(call.amountIn, call.reserveIn, call.reserveOut, call.fee)

Drained == result.status = "throw" /\ result.what = MsgDrain
InvalidInput == result.status = "throw" /\ result.what # MsgDrain

\* C1 as stated: for every valid input 0 < quote < reserveOut, simulate never ends
\* in PoolDrained, and both post-trade reserves are strictly positive.
C1_Original ==
    /\ QuoteValid => /\ result.status = "ok"
                     /\ Gt(result.val, Zero)
                     /\ Lt(result.val, call.reserveOut)
    /\ SimValid => /\ result.status = "ok"
                   /\ Gt(result.val.amountOut, Zero)
                   /\ Lt(result.val.amountOut, OutReserve)
                   /\ Gt(result.val.newReserveA, Zero)
                   /\ Gt(result.val.newReserveB, Zero)

\* C1 amended: for every valid input quote returns a value that is never negative
\* (it may be 0, reach or pass reserveOut, be infinite or NaN); simulate either
\* fails with the drain error, exactly when the quote is not below the out-reserve,
\* or succeeds with 0 <= amountOut < out-reserve and both new reserves > 0.
C1_Bounded ==
    /\ QuoteValid => /\ result.status = "ok"
                     /\ ~Lt(result.val, Zero)
    /\ SimValid =>
         LET q == QuoteFormula(call.amountIn, InReserve, OutReserve, call.fee)
         IN  /\ result.status = "throw" <=> ~Lt(q, OutReserve)
             /\ result.status = "throw" => result.what = MsgDrain
             /\ result.status = "ok" =>
                  /\ Ge(result.val.amountOut, Zero)
                  /\ Lt(result.val.amountOut, OutReserve)
                  /\ Gt(result.val.newReserveA, Zero)
                  /\ Gt(result.val.newReserveB, Zero)

\* C1 witnesses: a valid simulate that succeeds, and one that ends drained.
C1_Witness ==
    /\ SimValid /\ result.status = "ok"
    /\ Gt(result.val.amountOut, Zero)
C1_DrainReached == SimValid /\ Drained

\* The exact value, in least subnormals scaled by One, of amountIn * (1 - fee).
ExactInWithFee(amountIn, fee) == amountIn.v * (One - fee.v)

\* (reserveIn + amountIn*(1-fee)) * (reserveOut - amountOut) = reserveIn * reserveOut
\* over the reals, for finite operands (both sides scaled by One).
ConstantProductHolds(amountIn, reserveIn, reserveOut, fee, amountOut) ==
    (reserveIn.v * One + ExactInWithFee(amountIn, fee)) * (reserveOut.v - amountOut.v)
        = reserveIn.v * reserveOut.v * One

Canonical(d) == IF IsA2B(d) THEN A2B ELSE B2A
Recognised(d) == IsA2B(d) \/ IsB2A(d)
FeeInRange(fee) == Ge(fee, Zero) /\ Lt(fee, OneF)

\* C3 as stated: simulate fails with InvalidInput exactly when reserveA <= 0,
\* reserveB <= 0, the direction is not recognised, amountIn <= 0 or the fee is outside
\* [0,1); every other input gives a success record; and every spelling of a
\* recognised direction gives the result of the canonical spelling.  (A NaN is
\* counted with the non-positive numbers, the reading that favours the claim.)
C3_Original ==
    SimReturned =>
        LET bad == \/ ~Gt(call.reserveA, Zero) \/ ~Gt(call.reserveB, Zero)
                   \/ ~Recognised(call.direction)
                   \/ ~Gt(call.amountIn, Zero) \/ ~FeeInRange(call.fee)
        IN  /\ bad <=> InvalidInput
            /\ ~bad => result.status = "ok"
            /\ Recognised(call.direction) =>
                 result = simulateSwap(call.reserveA, call.reserveB, call.fee,
                                       Canonical(call.direction), call.amountIn)

\* C3 amended: simulate fails with InvalidInput exactly when reserveA <= 0,
\* reserveB <= 0, the direction is not recognised, amountIn <= 0 or the fee is outside
\* [0,1) (a NaN counted with the offending numbers); every other input gives a
\* success record or the drain error; and every spelling of a recognised direction
\* gives the result of the canonical spelling.
C3_InvalidInput ==
    SimReturned =>
        LET bad == \/ ~Gt(call.reserveA, Zero) \/ ~Gt(call.reserveB, Zero)
                   \/ ~Recognised(call.direction)
                   \/ ~Gt(call.amountIn, Zero) \/ ~FeeInRange(call.fee)
        IN  /\ bad <=> InvalidInput
            /\ ~bad => result.status = "ok" \/ Drained
            /\ Recognised(call.direction) =>
                 result = simulateSwap(call.reserveA, call.reserveB, call.fee,
                                       Canonical(call.direction), call.amountIn)

\* C3 witness: a recognised direction in mixed case whose call succeeds.
C3_Witness ==
    /\ SimReturned /\ result.status = "ok"
    /\ Recognised(call.direction) /\ call.direction # Canonical(call.direction)
\* C3 witness of the other side: an unrecognised direction rejected.
C3_Rejected ==
    /\ SimReturned /\ ~Recognised(call.direction)
    /\ Gt(call.reserveA, Zero) /\ Gt(call.reserveB, Zero)
    /\ InvalidInput

\* Whether the message names a parameter.
Names(what, parameter) == \E i \in 1..Len(what) : what[i] = parameter

\* C4 as stated: every InvalidInput names the offending parameter: in simulate a
\* non-positive reserveA is reported as reserveA whatever the other inputs are, a
\* non-positive reserveB as reserveB, then an unrecognised direction as direction, a
\* non-positive amountIn as amountIn, an out-of-range fee as fee; in quote a
\* non-positive reserveIn or reserveOut is reported as that reserve.
C4_Original ==
    /\ SimReturned =>
         /\ Le(call.reserveA, Zero) => InvalidInput /\ Names(result.what, "reserveA")
         /\ Le(call.reserveB, Zero) => InvalidInput /\ Names(result.what, "reserveB")
         /\ (Gt(call.reserveA, Zero) /\ Gt(call.reserveB, Zero)) =>
              /\ ~Recognised(call.direction) =>
                   InvalidInput /\ Names(result.what, "direction")
              /\ (Recognised(call.direction) /\ Le(call.amountIn, Zero)) =>
                   InvalidInput /\ Names(result.what, "amountIn")
              /\ (Recognised(call.direction) /\ Gt(call.amountIn, Zero)
                    /\ ~FeeInRange(call.fee)) =>
                   InvalidInput /\ Names(result.what, "fee")
    /\ (QuoteReturned /\ Gt(call.amountIn, Zero)) =>
         /\ Le(call.reserveIn, Zero) => InvalidInput /\ Names(result.what, "reserveIn")
         /\ Le(call.reserveOut, Zero) => InvalidInput /\ Names(result.what, "reserveOut")

\* C4 amended: the simulate part as stated, with one message for both reserves that
\* names reserveA and reserveB whichever of them offends; in quote a non-positive
\* amountIn is reported first, as amountIn, then a non-positive reserveIn or
\* reserveOut by the one message "reserves must be > 0", which names neither
\* reserveIn nor reserveOut, then an out-of-range fee as fee.
C4_Names ==
    /\ SimReturned =>
         /\ (~Gt(call.reserveA, Zero) \/ ~Gt(call.reserveB, Zero)) =>
              /\ InvalidInput /\ result.what = MsgReserveAB
              /\ Names(result.what, "reserveA") /\ Names(result.what, "reserveB")
         /\ (Gt(call.reserveA, Zero) /\ Gt(call.reserveB, Zero)) =>
              /\ ~Recognised(call.direction) =>
                   InvalidInput /\ Names(result.what, "direction")
              /\ (Recognised(call.direction) /\ ~Gt(call.amountIn, Zero)) =>
                   InvalidInput /\ Names(result.what, "amountIn")
              /\ (Recognised(call.direction) /\ Gt(call.amountIn, Zero)
                    /\ ~FeeInRange(call.fee)) =>
                   InvalidInput /\ Names(result.what, "fee")
    /\ QuoteReturned =>
         /\ ~Gt(call.amountIn, Zero) => InvalidInput /\ Names(result.what, "amountIn")
         /\ (Gt(call.amountIn, Zero)
               /\ (~Gt(call.reserveIn, Zero) \/ ~Gt(call.reserveOut, Zero))) =>
              /\ InvalidInput /\ result.what = MsgReserves
              /\ ~Names(result.what, "reserveIn") /\ ~Names(result.what, "reserveOut")
         /\ (Gt(call.amountIn, Zero) /\ Gt(call.reserveIn, Zero)
               /\ Gt(call.reserveOut, Zero) /\ ~FeeInRange(call.fee)) =>
              InvalidInput /\ Names(result.what, "fee")

\* C4 witness: simulate given reserveA = 0 with a bad direction, amount and fee.
C4_Witness ==
    /\ SimReturned /\ call.reserveA = Zero /\ Gt(call.reserveB, Zero)
    /\ ~Recognised(call.direction) /\ call.amountIn = Zero /\ call.fee = OneF
    /\ InvalidInput /\ Names(result.what, "reserveA")
\* C4 witness in quote: a non-positive reserveOut alone.
C4_QuoteReserve ==
    /\ QuoteReturned /\ Gt(call.amountIn, Zero) /\ Gt(call.reserveIn, Zero)
    /\ call.reserveOut = Zero /\ InvalidInput

\* C5 as stated: on success one reserve grows by exactly amountIn and the other
\* shrinks by exactly amountOut (finite inputs; the sums over the reals).
C5_Original ==
    (SimReturned /\ result.status = "ok"
        /\ IsFin(call.reserveA) /\ IsFin(call.reserveB) /\ IsFin(call.amountIn))
    => /\ IsFin(NewInReserve) /\ IsFin(NewOutReserve)
       /\ NewInReserve.v = InReserve.v + call.amountIn.v
       /\ NewOutReserve.v = OutReserve.v - result.val.amountOut.v

\* C5 amended: on success, for A2B newReserveA is the double sum reserveA + amountIn
\* and newReserveB the double difference reserveB - amountOut, for B2A newReserveB is
\* the double sum reserveB + amountIn and newReserveA the double difference
\* reserveA - amountOut; each is rounded, so a reserve may stay as it was.  The fee
\* is not deducted from the amount added.
C5_Reserves ==
    (SimReturned /\ result.status = "ok") =>
        IF IsA2B(call.direction)
        THEN /\ result.val.newReserveA = FAdd(call.reserveA, call.amountIn)
             /\ result.val.newReserveB = FSub(call.reserveB, result.val.amountOut)
        ELSE /\ result.val.newReserveB = FAdd(call.reserveB, call.amountIn)
             /\ result.val.newReserveA = FSub(call.reserveA, result.val.amountOut)

\* C5 witness: a successful B2A swap with a fee that moves both reserves.
C5_Witness ==
    /\ SimReturned /\ result.status = "ok" /\ IsB2A(call.direction)
    /\ Gt(call.fee, Zero)
    /\ Gt(result.val.newReserveB, call.reserveB)
    /\ Lt(result.val.newReserveA, call.reserveA)

\* C6: on every successful simulate slippagePercent >= 0.
C6_SlippageNonNegative ==
    (SimReturned /\ result.status = "ok") => Ge(result.val.slippagePercent, Zero)

\* The other direction.
Flip(d) == IF IsA2B(d) THEN B2A ELSE A2B

\* C7: simulate(A, B, fee, A2B, x) and simulate(B, A, fee, B2A, x) end alike: both
\* throw the same error, or both succeed with the same amountOut, effectivePrice
\* and slippagePercent and with newReserveA and newReserveB exchanged.
C7_Relabeling ==
    (SimReturned /\ Recognised(call.direction)) =>
        LET other == simulateSwap(call.reserveB, call.reserveA, call.fee,
                                  Flip(call.direction), call.amountIn)
        IN  /\ other.status = result.status
            /\ result.status = "throw" => other.what = result.what
            /\ result.status = "ok" =>
                 /\ other.val.amountOut = result.val.amountOut
                 /\ other.val.effectivePrice = result.val.effectivePrice
                 /\ other.val.slippagePercent = result.val.slippagePercent
                 /\ other.val.newReserveA = result.val.newReserveB
                 /\ other.val.newReserveB = result.val.newReserveA

\* C7 witness: a successful swap on a pool with unequal reserves.
C7_Witness ==
    /\ SimReturned /\ result.status = "ok" /\ IsA2B(call.direction)
    /\ call.reserveA # call.reserveB
    /\ Gt(result.val.amountOut, Zero)
    /\ result.val.newReserveA # result.val.newReserveB

\* C8: for fixed valid reserveIn, reserveOut and fee, quote is strictly increasing
\* in amountIn.
C8_IncreasingInAmount ==
    QuoteValid =>
        \A x2 \in PosInputs :
            Lt(call.amountIn, x2) =>
                Lt(result.val,
                   getAmountOut(x2, call.reserveIn, call.reserveOut, call.fee).val)

\* C9: for fixed valid amountIn, reserveIn and reserveOut, quote is strictly
\* decreasing in fee.
C9_DecreasingInFee ==
    QuoteValid =>
        \A f2 \in FeeInputs :
            (Lt(call.fee, f2) /\ Lt(f2, OneF)) =>
                Gt(result.val,
                   getAmountOut(call.amountIn, call.reserveIn, call.reserveOut, f2).val)

\* C10: after a successful swap the product of the reserves (over the reals) is
\* what it was when fee = 0, and never smaller for any fee.
C10_Product ==
    (SimReturned /\ result.status = "ok"
        /\ IsFin(call.reserveA) /\ IsFin(call.reserveB)
        /\ IsFin(result.val.newReserveA) /\ IsFin(result.val.newReserveB))
    => LET before == call.reserveA.v * call.reserveB.v
           after == result.val.newReserveA.v * result.val.newReserveB.v
       IN  /\ after >= before
           /\ call.fee = Zero => after = before

\* C6, the weaker form "slippagePercent is never negative" (a NaN let through).
C6_NeverNegative ==
    (SimReturned /\ result.status = "ok") => ~Lt(result.val.slippagePercent, Zero)

\* C8, the weaker form "quote never decreases as amountIn grows".
C8_NonDecreasing ==
    QuoteValid =>
        \A x2 \in PosInputs :
            Lt(call.amountIn, x2) =>
                ~Gt(result.val,
                    getAmountOut(x2, call.reserveIn, call.reserveOut, call.fee).val)

\* C9, the weaker form "quote never increases as fee grows".
C9_NonIncreasing ==
    QuoteValid =>
        \A f2 \in FeeInputs :
            (Lt(call.fee, f2) /\ Lt(f2, OneF)) =>
                ~Lt(result.val,
                    getAmountOut(call.amountIn, call.reserveIn, call.reserveOut, f2).val)

\* C10, the second half alone: the product never decreases.
C10_NeverDecreases ==
    (SimReturned /\ result.status = "ok"
        /\ IsFin(call.reserveA) /\ IsFin(call.reserveB)
        /\ IsFin(result.val.newReserveA) /\ IsFin(result.val.newReserveB))
    => result.val.newReserveA.v * result.val.newReserveB.v
           >= call.reserveA.v * call.reserveB.v

===========================================================================
